---- MODULE Spec2Model ----
(***************************************************************************)
(* pdfrenamer: CLI.Run of main.go as a state machine.                      *)
(*                                                                         *)
(* One run of the command: the page range is derived from --page-range,   *)
(* the PDF is opened, the page loop renders, encodes and transcribes the   *)
(* pages in range, the transcriptions are joined, one extraction request   *)
(* is made, its completion is decoded as JSON, the filename template is    *)
(* compiled and executed, and the file is renamed (or the name printed).   *)
(*                                                                         *)
(* Strings the code inspects character by character (--page-range) are     *)
(* sequences of one-character strings.  Texts the code only passes on      *)
(* (completions, file names) are sequences of opaque tokens.               *)
(* The PDF library, the LLM endpoint and the file system are the           *)
(* environment: each call returns one of the outcomes its contract allows. *)
(***************************************************************************)
EXTENDS Integers, Sequences, FiniteSets, TLC

\* ------------------------------------------------------------------ bounds

\* longest --page-range text enumerated over PageRangeAlphabet
MaxLen == 3
\* largest page count of the document
MaxPages == 5

\* ------------------------------------------------------- strconv / strings

Digits == {"0", "1", "2", "3", "4", "5", "6", "7", "8", "9"}

DigitVal(ch) ==
  CASE ch = "0" -> 0 [] ch = "1" -> 1 [] ch = "2" -> 2 [] ch = "3" -> 3
    [] ch = "4" -> 4 [] ch = "5" -> 5 [] ch = "6" -> 6 [] ch = "7" -> 7
    [] ch = "8" -> 8 [] ch = "9" -> 9

\* strings.Split(s, sep) for a one-character separator: the pieces between
\* the separators; a text without separator (the empty text too) is one piece.
RECURSIVE SplitFrom(_, _, _, _)
SplitFrom(s, sep, cur, acc) ==
  IF s = <<>> THEN Append(acc, cur)
  ELSE IF Head(s) = sep THEN SplitFrom(Tail(s), sep, <<>>, Append(acc, cur))
  ELSE SplitFrom(Tail(s), sep, Append(cur, Head(s)), acc)

Split(s, sep) == SplitFrom(s, sep, <<>>, <<>>)

\* The largest int.  Go's int is the platform's word; the model takes the
\* 32-bit targets' width, whose values TLC's integers hold.  The 64-bit
\* targets behave the same way with 2^63 in the place of 2^31.
MaxInt == 2147483647

\* decimal digits of 2^32 - 1 and of 2^31, the two limits
\* ParseUint and ParseInt compare against
MaxUintDigits == <<"4", "2", "9", "4", "9", "6", "7", "2", "9", "5">>
CutoffDigits == <<"2", "1", "4", "7", "4", "8", "3", "6", "4", "8">>

RECURSIVE StripZeros(_)
StripZeros(ds) ==
  IF ds # <<>> /\ Head(ds) = "0" THEN StripZeros(Tail(ds)) ELSE ds

RECURSIVE LexLess(_, _)
LexLess(a, b) ==
  IF a = <<>> THEN FALSE
  ELSE IF DigitVal(Head(a)) # DigitVal(Head(b))
       THEN DigitVal(Head(a)) < DigitVal(Head(b))
       ELSE LexLess(Tail(a), Tail(b))

\* a < b for two unsigned decimal numerals of any length
NumLess(a, b) ==
  LET x == StripZeros(a)
      y == StripZeros(b)
  IN IF Len(x) # Len(y) THEN Len(x) < Len(y) ELSE LexLess(x, y)

\* value of a numeral known to be below 2^31
RECURSIVE SmallVal(_, _)
SmallVal(ds, acc) ==
  IF ds = <<>> THEN acc ELSE SmallVal(Tail(ds), acc * 10 + DigitVal(Head(ds)))

\* strconv.ParseUint(s, 10, 32) on a text without sign: the scan stops
\* at the first character that is no digit (syntax error) or at the first
\* digit that takes the value over 2^32 - 1 (range error), whichever
\* comes first.  Returns the kind of error and the digits read.
RECURSIVE ParseUintFrom(_, _)
ParseUintFrom(s, seen) ==
  IF s = <<>> THEN [err |-> "nil", digits |-> seen]
  ELSE IF Head(s) \notin Digits THEN [err |-> "syntax", digits |-> seen]
  ELSE IF NumLess(MaxUintDigits, Append(seen, Head(s)))
       THEN [err |-> "range", digits |-> seen]
  ELSE ParseUintFrom(Tail(s), Append(seen, Head(s)))

ParseUint(s) ==
  IF s = <<>> THEN [err |-> "syntax", digits |-> <<>>]
  ELSE ParseUintFrom(s, <<>>)

\* strconv.ParseInt(s, 10, 0): sign, then ParseUint; a syntax error gives 0,
\* a value out of int's range gives the nearest int and a range error.
ParseInt(s) ==
  IF s = <<>> THEN [val |-> 0, err |-> "syntax"]
  ELSE
    LET neg == Head(s) = "-"
        body == IF Head(s) \in {"+", "-"} THEN Tail(s) ELSE s
        u == ParseUint(body)
    IN IF u.err = "syntax" THEN [val |-> 0, err |-> "syntax"]
       ELSE IF u.err = "range"
            THEN [val |-> IF neg THEN -MaxInt - 1 ELSE MaxInt, err |-> "range"]
       ELSE IF ~neg /\ ~NumLess(u.digits, CutoffDigits)
            THEN [val |-> MaxInt, err |-> "range"]
       ELSE IF neg /\ NumLess(CutoffDigits, u.digits)
            THEN [val |-> -MaxInt - 1, err |-> "range"]
       ELSE IF neg /\ StripZeros(u.digits) = CutoffDigits
            THEN [val |-> -MaxInt - 1, err |-> "nil"]
       ELSE [val |-> IF neg THEN -SmallVal(u.digits, 0) ELSE SmallVal(u.digits, 0),
             err |-> "nil"]

\* strconv.Atoi(s): the value and the error; Run keeps the value only.
Atoi(s) == ParseInt(s)

\* ------------------------------------------------------------ page selector

\* a lone number parsed as the first page
StartOf_ParsesSingle(pieces) ==
  IF Len(pieces) \in {1, 2} THEN Atoi(pieces[1]).val ELSE 0

\* the first page taken from the second piece
StartOf_Second(pieces) ==
  IF Len(pieces) = 2 THEN Atoi(pieces[2]).val ELSE 0

\* the last page taken from the second piece
EndOf_Second(pieces) ==
  IF Len(pieces) = 2 THEN Atoi(pieces[2]).val ELSE 0

\* main.go:39-47.  One piece: 0,0.  Two pieces: both from the first piece,
\* Atoi's error dropped.  Any other number of pieces: the initial 0,0.
StartOf(pieces) ==
  IF Len(pieces) = 2 THEN Atoi(pieces[1]).val ELSE 0

EndOf(pieces) ==
  IF Len(pieces) = 2 THEN Atoi(pieces[1]).val ELSE 0

ParsePageRange(text) ==
  LET pieces == Split(text, "-")
  IN [start |-> StartOf(pieces), end |-> EndOf(pieces)]

\* ------------------------------------------------------------- aggregation

Sep == "\n\n"

\* strings.Join(elems, "\n\n")
RECURSIVE Join(_)
Join(elems) ==
  IF elems = <<>> THEN <<>>
  ELSE IF Len(elems) = 1 THEN elems[1]
  ELSE elems[1] \o <<Sep>> \o Join(Tail(elems))

\* ------------------------------------------------------------ JSON decoding

\* A completion of the extraction request: text that is no JSON, or a JSON
\* value.  Members of an object are in text order; a member's value is a
\* string, null, or something else (number, boolean, array, object).
JStr(s) == [t |-> "string", s |-> s]
JNull == [t |-> "null", s |-> <<>>]
JOther == [t |-> "other", s |-> <<>>]
Member(k, v) == [k |-> k, v |-> v]
Payload(t, members) == [t |-> t, members |-> members]

\* json.Unmarshal([]byte(payload), &values) with values a nil
\* map[string]string.  Text that is no JSON, and a top-level string, number,
\* boolean or array, is an error.  A top-level null is no error and leaves
\* the map nil.  In an object a string member is stored, a null member
\* stores the empty string, any other member is an error; of two members
\* with one key the later one stays.
RECURSIVE MembersOk(_)
MembersOk(ms) ==
  ms = <<>> \/ (Head(ms).v.t \in {"string", "null"} /\ MembersOk(Tail(ms)))

RECURSIVE MembersMap(_, _)
MembersMap(ms, m) ==
  IF ms = <<>> THEN m
  ELSE MembersMap(Tail(ms),
         [k \in DOMAIN m \cup {Head(ms).k} |->
            IF k = Head(ms).k THEN Head(ms).v.s ELSE m[k]])

\* member values of any type let through
DecodeOk_Lenient(p) == p.t \in {"null", "object"}

DecodeOk(p) ==
  \/ p.t = "null"
  \/ p.t = "object" /\ MembersOk(p.members)

Unmarshal(p) ==
  IF ~DecodeOk(p) THEN [ok |-> FALSE, values |-> <<>>]
  ELSE IF p.t = "null" THEN [ok |-> TRUE, values |-> <<>>]
  ELSE [ok |-> TRUE, values |-> MembersMap(p.members, <<>>)]

\* ------------------------------------------------------------ text/template

\* A --format text is a sequence of parts: literal text, a field reference
\* {{.Key}}, a call of sprig's fail, or an action that is not closed.
Lit(s) == [t |-> "lit", s |-> s]
Field(k) == [t |-> "field", s |-> k]
CallFail == [t |-> "fail", s |-> ""]
Unclosed == [t |-> "unclosed", s |-> ""]

\* template.New("filename").Funcs(...).Parse(format) succeeds unless an
\* action of the text is malformed
TemplateParses(fmt) == \A i \in 1..Len(fmt) : fmt[i].t # "unclosed"

NoValue == "<no value>"

\* template.Execute(filename, values): the parts in order; a field that the
\* map lacks prints "<no value>"; fail ends the execution with an error.
RECURSIVE ExecuteFrom(_, _, _)
ExecuteFrom(fmt, vals, out) ==
  IF fmt = <<>> THEN [ok |-> TRUE, out |-> out]
  ELSE IF Head(fmt).t = "fail" THEN [ok |-> FALSE, out |-> out]
  ELSE IF Head(fmt).t = "lit"
       THEN ExecuteFrom(Tail(fmt), vals, Append(out, Head(fmt).s))
  ELSE IF Head(fmt).s \in DOMAIN vals
       THEN ExecuteFrom(Tail(fmt), vals, out \o vals[Head(fmt).s])
  ELSE ExecuteFrom(Tail(fmt), vals, Append(out, NoValue))

Execute(fmt, vals) == ExecuteFrom(fmt, vals, <<>>)

\* ------------------------------------------------------------------ inputs

PageRangeAlphabet == {"1", "-", "a"}

RECURSIVE TextsUpTo(_)
TextsUpTo(k) ==
  IF k = 0 THEN {<<>>}
  ELSE LET shorter == TextsUpTo(k - 1)
       IN shorter \cup {Append(t, ch) : t \in shorter, ch \in PageRangeAlphabet}

\* --page-range texts: every text of at most MaxLen characters over the
\* alphabet, and the texts whose numbers the alphabet does not spell
PageRangeInputs ==
  TextsUpTo(MaxLen) \cup
  { <<"0", "-", "1">>,
    <<"2", "-", "5">>,
    <<"3", "-", "1">>,
    <<"+", "2", "-", "0">>,
    <<"2", "1", "4", "7", "4", "8", "3", "6", "4", "7", "-", "1">>,
    <<"2", "1", "4", "7", "4", "8", "3", "6", "4", "8", "-", "1">>,
    <<"3", "0", "0", "0", "0", "0", "0", "0", "0", "0", "a", "-", "1">>,
    <<"5", "0", "0", "0", "0", "0", "0", "0", "0", "0", "a", "-", "1">> }

\* main.go:32 is the first; then a text that does not compile, one whose
\* execution fails, and the empty text
Formats ==
  { <<Field("Title"), Lit(".pdf")>>,
    <<Field("Title"), Unclosed>>,
    <<Field("Title"), CallFail>>,
    <<>> }

\* what the transcription endpoint may answer for page p
PageTexts(p) == { <<>>, <<"page", ToString(p)>> }

\* what the extraction endpoint may answer
Payloads ==
  { Payload("invalid", <<>>),
    Payload("null", <<>>),
    Payload("array", <<>>),
    Payload("object", <<>>),
    Payload("object", <<Member("Title", JStr(<<"Invoice">>))>>),
    Payload("object", <<Member("Title", JNull)>>),
    Payload("object", <<Member("Title", JOther)>>) }

\* c.Filename, an existing file (main.go:23)
SourcePath == <<"in.pdf">>

\* ------------------------------------------------------------------- state

VARIABLES
  PageRange, Format, DryRun,  \* the CLI fields Run reads
  numPage,                     \* doc.NumPage() of the file
  pc,                          \* where Run is
  startPage, endPage,          \* main.go:39
  n,                           \* the loop variable, main.go:64
  contents,                    \* main.go:59
  markdown,                    \* main.go:129
  payload,                     \* main.go:164
  values,                      \* main.go:167
  filename,                    \* main.go:178
  err,                         \* what Run returned
  deferred,                    \* the deferred calls of Run, main.go:53
  opens, closes,               \* document handles acquired and released
  visited,                     \* loop indexes the loop body was entered with
  images,                      \* calls of doc.Image: page and outcome
  sent,                        \* transcription requests: page and outcome
  extracts,                    \* extraction requests: user message and outcome
  parsed, executed,            \* calls of template Parse and Execute
  stdout,                      \* lines written by fmt.Println
  renames,                     \* calls of os.Rename
  fileAt                       \* the path the source file is at

cliVars == <<PageRange, Format, DryRun, numPage>>
rangeVars == <<startPage, endPage>>
docVars == <<deferred, opens, closes>>
loopVars == <<n, contents, visited, images, sent>>
tailVars == <<markdown, payload, values, filename, extracts, parsed, executed>>
outVars == <<stdout, renames, fileAt>>

vars == <<cliVars, rangeVars, docVars, loopVars, tailVars, outVars, pc, err>>

\* a call on page p and how it ended: "ok", "error", or "nochoice" for a
\* completion that came back without choices
Call(p, result) == [page |-> p, result |-> result]
Request(doc, result) == [doc |-> doc, result |-> result]

NoError == [kind |-> "none", page |-> -1]
Error(kind) == [kind |-> kind, page |-> -1]
PageError(kind, p) == [kind |-> kind, page |-> p]

Init ==
  /\ PageRange \in PageRangeInputs
  /\ Format \in Formats
  /\ DryRun \in BOOLEAN
  /\ numPage \in 0..MaxPages
  /\ pc = "range"
  /\ startPage = 0
  /\ endPage = 0
  /\ n = 0
  /\ contents = <<>>
  /\ markdown = <<>>
  /\ payload = Payload("none", <<>>)
  /\ values = <<>>
  /\ filename = <<>>
  /\ err = NoError
  /\ deferred = <<>>
  /\ opens = 0
  /\ closes = 0
  /\ visited = <<>>
  /\ images = <<>>
  /\ sent = <<>>
  /\ extracts = <<>>
  /\ parsed = 0
  /\ executed = 0
  /\ stdout = <<>>
  /\ renames = <<>>
  /\ fileAt = SourcePath

\* ------------------------------------------------------------ leaving Run

\* no deferred call runs
RunDeferred_Leak ==
  /\ closes' = closes
  /\ deferred' = deferred
  /\ opens' = opens

\* the deferred calls run when Run returns or panics; each is doc.Close
RunDeferred ==
  /\ closes' = closes + Len(deferred)
  /\ deferred' = <<>>
  /\ opens' = opens

\* return e
Return(e) ==
  /\ pc' = IF e = NoError THEN "done" ELSE "error"
  /\ err' = e
  /\ RunDeferred

\* the choices counted first and their lack returned as an error
Panic_Guarded == Return(Error("nochoice"))

\* an index out of range in response.Choices[0]
Panic ==
  /\ pc' = "panic"
  /\ err' = err
  /\ RunDeferred

\* ----------------------------------------------------------------- actions

\* main.go:39-47
SelectPages ==
  /\ pc = "range"
  /\ startPage' = ParsePageRange(PageRange).start
  /\ endPage' = ParsePageRange(PageRange).end
  /\ pc' = "open"
  /\ UNCHANGED <<cliVars, docVars, loopVars, tailVars, outVars, err>>

\* main.go:49-59
Open ==
  /\ pc = "open"
  /\ \/ /\ Return(Error("open"))
        /\ UNCHANGED <<n, contents>>
     \/ /\ opens' = opens + 1
        /\ deferred' = Append(deferred, "doc.Close")
        /\ closes' = closes
        /\ contents' = <<>>
        /\ n' = 0
        /\ pc' = "loop"
        /\ err' = err
  /\ UNCHANGED <<cliVars, rangeVars, visited, images, sent, tailVars, outVars>>

\* main.go:64, the loop condition fails
LoopEnd ==
  /\ pc = "loop"
  /\ ~(n < numPage)
  /\ pc' = "join"
  /\ UNCHANGED <<cliVars, rangeVars, docVars, loopVars, tailVars, outVars, err>>

\* main.go:65-68
Skip ==
  /\ pc = "loop"
  /\ n < numPage
  /\ n < startPage
  /\ visited' = Append(visited, n)
  /\ n' = n + 1
  /\ UNCHANGED <<cliVars, rangeVars, docVars, contents, images, sent, tailVars,
                 outVars, pc, err>>

\* continue in the place of break
Break_Continues ==
  /\ pc = "loop"
  /\ n < numPage
  /\ ~(n < startPage)
  /\ endPage < n
  /\ visited' = Append(visited, n)
  /\ n' = n + 1
  /\ UNCHANGED <<cliVars, rangeVars, docVars, contents, images, sent, tailVars,
                 outVars, pc, err>>

\* main.go:69-72
Break ==
  /\ pc = "loop"
  /\ n < numPage
  /\ ~(n < startPage)
  /\ endPage < n
  /\ visited' = Append(visited, n)
  /\ pc' = "join"
  /\ UNCHANGED <<cliVars, rangeVars, docVars, n, contents, images, sent, tailVars,
                 outVars, err>>

\* main.go:74-79
Image ==
  /\ pc = "loop"
  /\ n < numPage
  /\ ~(n < startPage)
  /\ ~(endPage < n)
  /\ visited' = Append(visited, n)
  /\ \/ /\ images' = Append(images, Call(n, "error"))
        /\ Return(PageError("image", n))
     \/ /\ images' = Append(images, Call(n, "ok"))
        /\ pc' = "encode"
        /\ UNCHANGED <<docVars, err>>
  /\ UNCHANGED <<cliVars, rangeVars, n, contents, sent, tailVars, outVars>>

\* main.go:83-91
Encode ==
  /\ pc = "encode"
  /\ \/ /\ Return(PageError("encode", n))
     \/ /\ pc' = "transcribe"
        /\ UNCHANGED <<docVars, err>>
  /\ UNCHANGED <<cliVars, rangeVars, loopVars, tailVars, outVars>>

\* a failed request logged and the loop continued
Transcribe_Continues ==
  /\ pc = "transcribe"
  /\ \/ /\ sent' = Append(sent, Call(n, "error"))
        /\ n' = n + 1
        /\ pc' = "loop"
        /\ UNCHANGED <<docVars, err, contents>>
     \/ /\ sent' = Append(sent, Call(n, "nochoice"))
        /\ Panic
        /\ UNCHANGED <<n, contents>>
     \/ /\ sent' = Append(sent, Call(n, "ok"))
        /\ \E text \in PageTexts(n) : contents' = Append(contents, text)
        /\ n' = n + 1
        /\ pc' = "loop"
        /\ UNCHANGED <<docVars, err>>
  /\ UNCHANGED <<cliVars, rangeVars, visited, images, tailVars, outVars>>

\* main.go:93-126 and the loop's n++
Transcribe ==
  /\ pc = "transcribe"
  /\ \/ /\ sent' = Append(sent, Call(n, "error"))
        /\ Return(PageError("transcribe", n))
        /\ UNCHANGED <<n, contents>>
     \/ /\ sent' = Append(sent, Call(n, "nochoice"))
        /\ Panic
        /\ UNCHANGED <<n, contents>>
     \/ /\ sent' = Append(sent, Call(n, "ok"))
        /\ \E text \in PageTexts(n) : contents' = Append(contents, text)
        /\ n' = n + 1
        /\ pc' = "loop"
        /\ UNCHANGED <<docVars, err>>
  /\ UNCHANGED <<cliVars, rangeVars, visited, images, tailVars, outVars>>

\* an empty transcript turned down before the extraction
Aggregate_RejectsEmpty ==
  /\ pc = "join"
  /\ markdown' = Join(contents)
  /\ IF contents = <<>>
     THEN Return(Error("empty"))
     ELSE /\ pc' = "extract"
          /\ UNCHANGED <<docVars, err>>
  /\ UNCHANGED <<cliVars, rangeVars, loopVars, payload, values, filename,
                 extracts, parsed, executed, outVars>>

\* main.go:129
Aggregate ==
  /\ pc = "join"
  /\ markdown' = Join(contents)
  /\ pc' = "extract"
  /\ UNCHANGED <<cliVars, rangeVars, docVars, loopVars, payload, values, filename,
                 extracts, parsed, executed, outVars, err>>

\* main.go:133-164
Extract ==
  /\ pc = "extract"
  /\ \/ /\ extracts' = Append(extracts, Request(markdown, "error"))
        /\ Return(Error("extract"))
        /\ payload' = payload
     \/ /\ extracts' = Append(extracts, Request(markdown, "nochoice"))
        /\ Panic
        /\ payload' = payload
     \/ /\ extracts' = Append(extracts, Request(markdown, "ok"))
        /\ payload' \in Payloads
        /\ pc' = "decode"
        /\ UNCHANGED <<docVars, err>>
  /\ UNCHANGED <<cliVars, rangeVars, loopVars, markdown, values, filename, parsed,
                 executed, outVars>>

\* main.go:167-171
Decode ==
  /\ pc = "decode"
  /\ IF Unmarshal(payload).ok
     THEN /\ values' = Unmarshal(payload).values
          /\ pc' = "parse"
          /\ UNCHANGED <<docVars, err>>
     ELSE /\ Return(Error("decode"))
          /\ values' = values
  /\ UNCHANGED <<cliVars, rangeVars, loopVars, markdown, payload, filename, extracts,
                 parsed, executed, outVars>>

\* main.go:173-176
ParseTemplate ==
  /\ pc = "parse"
  /\ parsed' = parsed + 1
  /\ IF TemplateParses(Format)
     THEN /\ pc' = "execute"
          /\ UNCHANGED <<docVars, err>>
     ELSE Return(Error("parse"))
  /\ UNCHANGED <<cliVars, rangeVars, loopVars, markdown, payload, values, filename,
                 extracts, executed, outVars>>

\* main.go:178-182
ExecuteTemplate ==
  /\ pc = "execute"
  /\ executed' = executed + 1
  /\ filename' = Execute(Format, values).out
  /\ IF Execute(Format, values).ok
     THEN /\ pc' = "finish"
          /\ UNCHANGED <<docVars, err>>
     ELSE Return(Error("execute"))
  /\ UNCHANGED <<cliVars, rangeVars, loopVars, markdown, payload, values, extracts,
                 parsed, outVars>>

\* the rename outside the else branch
RenameWanted_Always == TRUE

\* main.go:184, 186: the name is printed when c.DryRun, the file renamed
\* otherwise
RenameWanted == ~DryRun

\* main.go:184-185, 193
PrintName ==
  /\ pc = "finish"
  /\ ~RenameWanted
  /\ stdout' = Append(stdout, filename)
  /\ Return(NoError)
  /\ UNCHANGED <<cliVars, rangeVars, loopVars, tailVars, renames, fileAt>>

\* os.Rename(old, new) can succeed when the file is at old and new names a
\* path; it can always fail, and then the file stays where it is
CanRename(old, new) == fileAt = old /\ new # <<>>

\* the name printed before the rename is tried
Rename_PrintsFirst ==
  /\ pc = "finish"
  /\ RenameWanted
  /\ stdout' = Append(stdout, filename)
  /\ renames' = Append(renames, [old |-> SourcePath, new |-> filename])
  /\ \/ /\ CanRename(SourcePath, filename)
        /\ fileAt' = filename
        /\ Return(NoError)
     \/ /\ fileAt' = fileAt
        /\ Return(Error("rename"))
  /\ UNCHANGED <<cliVars, rangeVars, loopVars, tailVars>>

\* main.go:186-193
Rename ==
  /\ pc = "finish"
  /\ RenameWanted
  /\ renames' = Append(renames, [old |-> SourcePath, new |-> filename])
  /\ \/ /\ CanRename(SourcePath, filename)
        /\ fileAt' = filename
        /\ Return(NoError)
     \/ /\ fileAt' = fileAt
        /\ Return(Error("rename"))
  /\ UNCHANGED <<cliVars, rangeVars, loopVars, tailVars, stdout>>

Next ==
  \/ SelectPages
  \/ Open
  \/ LoopEnd
  \/ Skip
  \/ Break
  \/ Image
  \/ Encode
  \/ Transcribe
  \/ Aggregate
  \/ Extract
  \/ Decode
  \/ ParseTemplate
  \/ ExecuteTemplate
  \/ PrintName
  \/ Rename

Spec == Init /\ [][Next]_vars

\* ================================================================== claims

Pages(log) == [i \in 1..Len(log) |-> log[i].page]

RECURSIVE SepCount(_)
SepCount(doc) ==
  IF doc = <<>> THEN 0
  ELSE (IF Head(doc) = Sep THEN 1 ELSE 0) + SepCount(Tail(doc))

\* Run is past the page loop and the join, no step having failed so far
Joined == pc \in {"extract", "decode", "parse", "execute", "finish", "done"}

\* C1: for a 3-page document and --page-range "0-1", once the transcript is
\* joined without a failing step, the transcription endpoint was sent pages
\* 0 and 1 and never page 2, the transcript has 2 entries and the joined
\* document one separator.
C1_ZeroToOneTranscribesTwoPages ==
  (PageRange = <<"0", "-", "1">> /\ numPage = 3 /\ Joined) =>
    /\ Pages(sent) = <<0, 1>>
    /\ Len(contents) = 2
    /\ SepCount(markdown) = 1

\* C2: with dry-run set os.Rename is never called and a finished run has
\* written the rendered name, once, to standard output; with dry-run unset
\* nothing is printed, and a run that reached the terminal step has called
\* os.Rename exactly once, from the input path to the rendered name; before
\* the terminal step no rename is made.
C2_TerminalStep ==
  /\ DryRun => renames = <<>>
  /\ (DryRun /\ pc = "done") => stdout = <<filename>>
  /\ ~DryRun => stdout = <<>>
  /\ (~DryRun /\ (pc = "done" \/ (pc = "error" /\ err.kind = "rename"))) =>
        renames = <<[old |-> SourcePath, new |-> filename]>>
  /\ ~(pc = "done" \/ (pc = "error" /\ err.kind = "rename")) => renames = <<>>

C2_Witness ==
  /\ ~DryRun
  /\ pc = "done"
  /\ renames = <<[old |-> SourcePath, new |-> <<"Invoice", ".pdf">>]>>
  /\ fileAt = <<"Invoice", ".pdf">>

\* C3: a failed transcription request for page p is the last thing the run
\* does: p is in range, Run has returned the error that names p, no later
\* page was visited, rendered or sent, no extraction request was made, the
\* template was not touched and the file is neither renamed nor its name
\* printed.
C3_TranscriptionFailureAborts ==
  \A i \in 1..Len(sent) :
    sent[i].result = "error" =>
      /\ i = Len(sent)
      /\ pc = "error"
      /\ err = PageError("transcribe", sent[i].page)
      /\ startPage <= sent[i].page /\ sent[i].page <= endPage
      /\ visited[Len(visited)] = sent[i].page
      /\ images[Len(images)].page = sent[i].page
      /\ Len(contents) = Len(sent) - 1
      /\ extracts = <<>>
      /\ parsed = 0 /\ executed = 0
      /\ renames = <<>> /\ stdout = <<>> /\ fileAt = SourcePath

C3_Witness ==
  /\ numPage = 5
  /\ pc = "error"
  /\ err = PageError("transcribe", 2)
  /\ sent = <<Call(2, "error")>>

\* a completion that is a JSON object whose members are all strings
IsFlatStringObject(p) ==
  /\ p.t = "object"
  /\ \A i \in 1..Len(p.members) : p.members[i].v.t = "string"

\* the extraction request was answered and the answer has been decoded
Decoded == payload.t # "none" /\ pc \notin {"extract", "decode"}

DecodeErrorEnded ==
  /\ pc = "error"
  /\ err = Error("decode")
  /\ parsed = 0 /\ executed = 0
  /\ stdout = <<>> /\ renames = <<>> /\ fileAt = SourcePath

\* C4 as stated: a completion that is no JSON, or JSON that is no flat
\* string-to-string object, ends the run with a decode error before the
\* template is compiled or executed, nothing printed, nothing renamed.
C4_NotFlatObjectIsDecodeError ==
  (Decoded /\ ~IsFlatStringObject(payload)) => DecodeErrorEnded

\* what json.Unmarshal into a map[string]string rejects
Undecodable(p) ==
  \/ p.t \in {"invalid", "array"}
  \/ /\ p.t = "object"
     /\ \E i \in 1..Len(p.members) : p.members[i].v.t \notin {"string", "null"}

\* C4 amended: a completion that is no JSON, or a JSON string, number,
\* boolean or array, or an object with a member that is neither a string nor
\* null, ends the run with a decode error before the template is compiled
\* or executed, nothing printed, nothing renamed; the JSON null and an object
\* with null members are decoded without error and the run goes on to the
\* template.
C4_UndecodableIsDecodeError ==
  /\ (Decoded /\ Undecodable(payload)) => DecodeErrorEnded
  /\ (Decoded /\ ~Undecodable(payload)) =>
       (err.kind # "decode" /\ (pc = "parse" \/ parsed = 1))

C4_Witness ==
  /\ payload = Payload("object", <<Member("Title", JOther)>>)
  /\ DecodeErrorEnded

\* C5: a run that returned an error left the file at its path and printed
\* nothing, a failed rename included; the file is moved or the name printed
\* only in a run that returned nil, in which every call succeeded.
C5_NoPartialOutput ==
  /\ pc = "error" => (fileAt = SourcePath /\ stdout = <<>>)
  /\ (fileAt # SourcePath \/ stdout # <<>>) =>
       /\ pc = "done"
       /\ err = NoError
       /\ \A i \in 1..Len(images) : images[i].result = "ok"
       /\ \A i \in 1..Len(sent) : sent[i].result = "ok"
       /\ extracts = <<Request(markdown, "ok")>>
       /\ parsed = 1 /\ executed = 1
       /\ Len(stdout) + Len(renames) = 1

C5_Witness ==
  /\ pc = "error"
  /\ err = Error("rename")
  /\ renames = <<[old |-> SourcePath, new |-> <<"Invoice", ".pdf">>]>>
  /\ fileAt = SourcePath

Terminal == pc \in {"done", "error", "panic"}

HandleInv ==
  /\ opens \in {0, 1}
  /\ pc \in {"range", "open"} => opens = 0
  /\ ~Terminal => closes = 0
  /\ Terminal => closes = opens
  /\ (Terminal /\ err.kind # "open") => opens = 1
  /\ err.kind = "open" => (opens = 0 /\ closes = 0)
  /\ images # <<>> => opens = 1

\* C6: at most one handle is acquired; while Run is running it is not
\* released; when Run has ended (nil, any error, or a panic) the handle has
\* been released exactly once if it was acquired and never if the open
\* failed; and no page is rendered once the handle is released.
C6_HandleReleasedOnce ==
  /\ []HandleInv
  /\ [][closes > 0 => images' = images]_vars

C6_Witness ==
  /\ pc = "error"
  /\ err = PageError("encode", 2)
  /\ opens = 1
  /\ closes = 1

DashCount(text) == Cardinality({i \in 1..Len(text) : text[i] = "-"})

\* C7: a --page-range text without dash, a lone number N of any value among
\* them, gives start = 0 and end = 0.
C7_SingleNumberIsZeroZero ==
  (pc # "range" /\ DashCount(PageRange) = 0) => (startPage = 0 /\ endPage = 0)

C7_Witness ==
  /\ PageRange = <<"1", "1">>
  /\ pc = "join"
  /\ Pages(sent) = <<0>>

\* the text before the first dash
RECURSIVE BeforeDash(_)
BeforeDash(text) ==
  IF text = <<>> \/ Head(text) = "-" THEN <<>>
  ELSE <<Head(text)>> \o BeforeDash(Tail(text))

Unsigned(text) == IF text # <<>> /\ Head(text) = "+" THEN Tail(text) ELSE text

AllDigits(text) == \A i \in 1..Len(text) : text[i] \in Digits

\* integer text: an optional sign, then one digit or more
IsIntText(text) == Unsigned(text) # <<>> /\ AllDigits(Unsigned(text))

RECURSIVE LeadingDigits(_)
LeadingDigits(text) ==
  IF text = <<>> \/ Head(text) \notin Digits THEN <<>>
  ELSE <<Head(text)>> \o LeadingDigits(Tail(text))

DigitChar(d) == <<"0", "1", "2", "3", "4", "5", "6", "7", "8", "9">>[d + 1]

\* the decimal numeral of k >= 0
RECURSIVE Decimal(_)
Decimal(k) ==
  IF k < 10 THEN <<DigitChar(k)>> ELSE Append(Decimal(k \div 10), DigitChar(k % 10))

\* the numeral without leading zeros
Canon(ds) == IF StripZeros(ds) = <<>> THEN <<"0">> ELSE StripZeros(ds)

\* C8 as stated: for "N-M" start and end are the integer value of N, and
\* both are 0 when N is no integer text; M has no part in either.
C8_BothFromFirstOrZero ==
  (pc # "range" /\ DashCount(PageRange) = 1) =>
    LET N == BeforeDash(PageRange)
    IN /\ endPage = startPage
       /\ startPage >= 0
       /\ IsIntText(N) => Decimal(startPage) = Canon(Unsigned(N))
       /\ ~IsIntText(N) => startPage = 0

\* C8 amended: for "N-M" start and end are equal and are what Atoi gives for
\* N with its error dropped: the value of N when N is integer text within
\* int's range; the largest int when N is integer text beyond int's range,
\* or when the digits N begins with are already beyond the unsigned word's
\* range, whatever follows them; 0 for every other text.  M has no part in
\* either and Run goes on to open the file without an error.
C8_BothFromFirstAsAtoi ==
  (pc # "range" /\ DashCount(PageRange) = 1) =>
    LET N == BeforeDash(PageRange)
        ds == Unsigned(N)
    IN /\ endPage = startPage
       /\ startPage >= 0
       /\ (IsIntText(N) /\ NumLess(ds, CutoffDigits)) =>
             Decimal(startPage) = Canon(ds)
       /\ (IsIntText(N) /\ ~NumLess(ds, CutoffDigits)) => startPage = MaxInt
       /\ (~IsIntText(N) /\ NumLess(MaxUintDigits, LeadingDigits(ds))) =>
             startPage = MaxInt
       /\ (~IsIntText(N) /\ ~NumLess(MaxUintDigits, LeadingDigits(ds))) =>
             startPage = 0
       /\ pc = "open" => err = NoError

C8_Witness ==
  /\ PageRange = <<"2", "1", "4", "7", "4", "8", "3", "6", "4", "8", "-", "1">>
  /\ pc = "open"
  /\ startPage = MaxInt
  /\ endPage = MaxInt

InRange == {i \in 0..(numPage - 1) : startPage <= i /\ i <= endPage}

Ascending(log) ==
  \A i, j \in 1..Len(log) : i < j => log[i].page < log[j].page

LoopInv ==
  /\ \A i \in 1..Len(visited) : visited[i] = i - 1
  /\ \A i \in 1..Len(visited) :
       visited[i] > endPage =>
         (i = Len(visited) /\ pc \notin {"loop", "encode", "transcribe"})
  /\ \A i \in 1..Len(images) : images[i].page \in InRange
  /\ \A i \in 1..Len(sent) :
       /\ sent[i].page \in InRange
       /\ images[i] = Call(sent[i].page, "ok")
  /\ Ascending(images) /\ Ascending(sent)
  /\ Len(sent) <= Len(images) /\ Len(images) <= Len(sent) + 1
  /\ pc = "loop" =>
       /\ Len(visited) = n
       /\ {sent[i].page : i \in 1..Len(sent)} = {i \in InRange : i < n}
  /\ pc = "join" => {sent[i].page : i \in 1..Len(sent)} = InRange
  /\ Len(contents) = Cardinality({i \in 1..Len(sent) : sent[i].result = "ok"})
  /\ \A i \in 1..Len(contents) :
       sent[i].result = "ok" /\ contents[i] \in PageTexts(sent[i].page)

\* C9: the loop bodies are entered with 0, 1, 2, ... in this order; the pages
\* rendered and sent are in [start, end], in ascending order, one at a time,
\* a page sent only after it was rendered; an index past end is the last one
\* visited; when the loop is left without failure exactly the indexes of the
\* document in [start, end] were sent; the transcript has one entry per
\* answered request, in page order, and a step either leaves it alone or
\* appends one entry.
C9_PageLoop ==
  /\ []LoopInv
  /\ [][\/ contents' = contents
        \/ /\ Len(contents') = Len(contents) + 1
           /\ SubSeq(contents', 1, Len(contents)) = contents]_vars

C9_Witness ==
  /\ pc = "join"
  /\ visited = <<0, 1, 2, 3>>
  /\ sent = <<Call(2, "ok")>>
  /\ contents = <<<<"page", "2">>>>

\* C10: start >= 0, end >= 0 and end >= start in every state, for every
\* --page-range text, and once derived neither changes.
C10_PageRangeInvariant ==
  /\ [](startPage >= 0 /\ endPage >= 0 /\ endPage >= startPage)
  /\ [][pc # "range" => (startPage' = startPage /\ endPage' = endPage)]_vars

C10_Witness ==
  /\ PageRange = <<"3", "-", "1">>
  /\ pc = "done"
  /\ startPage = 3
  /\ endPage = 3

\* the three outcomes of the pipeline's state machine
Printed == pc = "done" /\ DryRun /\ stdout = <<filename>> /\ renames = <<>>
Renamed == pc = "done" /\ ~DryRun /\ stdout = <<>> /\ fileAt = filename
Errored == pc = "error" /\ err # NoError

OutcomeCount ==
  (IF Printed THEN 1 ELSE 0) + (IF Renamed THEN 1 ELSE 0) + (IF Errored THEN 1 ELSE 0)

\* every call is made at most once (once per page for the loop's calls),
\* and the loop's calls never outnumber the pages
NothingRetried ==
  /\ opens <= 1
  /\ Len(visited) <= numPage
  /\ Len(images) <= numPage
  /\ Len(sent) <= numPage
  /\ Ascending(images) /\ Ascending(sent)
  /\ Len(extracts) <= 1
  /\ parsed <= 1 /\ executed <= 1
  /\ Len(stdout) + Len(renames) <= 1

\* C11: every call returning, a run that has left Run (by a return or by a
\* panic) has ended in exactly one of Printed, Renamed and Error, and a run
\* is in none of them before; nothing is retried, so a run makes at most
\* pageCount transcription requests and at most one extraction request.
C11_EndsPrintedRenamedOrError ==
  /\ NothingRetried
  /\ Terminal => OutcomeCount = 1
  /\ ~Terminal => OutcomeCount = 0

\* the range is derived and no page index of the document is in it
NoPageInRange == pc # "range" /\ (numPage = 0 \/ startPage >= numPage)

\* C12: when pageCount is 0 or start >= pageCount, no page index is in
\* [start, end]; no page is rendered, no transcription request is made and
\* the transcript stays empty; the loop returns no error; the joined
\* document is empty, and a run that opened the file and has ended made
\* exactly one extraction request, with the empty document as its message.
C12_EmptyRangeStillExtracts ==
  NoPageInRange =>
    /\ InRange = {}
    /\ images = <<>> /\ sent = <<>> /\ contents = <<>>
    /\ markdown = <<>>
    /\ err.kind \in {"none", "open", "extract", "decode", "parse", "execute", "rename"}
    /\ Len(extracts) <= 1
    /\ \A i \in 1..Len(extracts) : extracts[i].doc = <<>>
    /\ (Terminal /\ err.kind # "open") => Len(extracts) = 1

C12_Witness ==
  /\ PageRange = <<"2", "-", "5">>
  /\ numPage = 2
  /\ visited = <<0, 1>>
  /\ extracts = <<Request(<<>>, "ok")>>
  /\ ~DryRun
  /\ pc = "done"
  /\ fileAt = <<"Invoice", ".pdf">>

\* nothing after the request that came back without choices has run
NothingAfterExtraction ==
  /\ payload.t = "none"
  /\ parsed = 0 /\ executed = 0
  /\ stdout = <<>> /\ renames = <<>> /\ fileAt = SourcePath

\* C13: a transcription or extraction request that returns no error and no
\* choice is the last thing the run does: Run has not returned an error, it
\* has panicked; the transcript got no entry for it, no later request was
\* made, the template was not touched, nothing was printed and the file is
\* not renamed.  Run panics in no other way.
C13_NoChoicePanics ==
  /\ \A i \in 1..Len(sent) :
       sent[i].result = "nochoice" =>
         /\ i = Len(sent)
         /\ pc = "panic"
         /\ err = NoError
         /\ Len(contents) = Len(sent) - 1
         /\ visited[Len(visited)] = sent[i].page
         /\ extracts = <<>>
         /\ NothingAfterExtraction
  /\ \A i \in 1..Len(extracts) :
       extracts[i].result = "nochoice" =>
         /\ pc = "panic"
         /\ err = NoError
         /\ NothingAfterExtraction
  /\ pc = "panic" =>
       \/ sent # <<>> /\ sent[Len(sent)].result = "nochoice"
       \/ extracts # <<>> /\ extracts[Len(extracts)].result = "nochoice"

C13_Witness ==
  /\ pc = "panic"
  /\ numPage = 5
  /\ sent = <<Call(2, "nochoice")>>
  /\ contents = <<>>
  /\ closes = 1

====
